---------------------------- MODULE Spec2Model ----------------------------
(***************************************************************************)
(* Calculator MCP server (src/src/main.rs): the JSON-RPC dispatcher        *)
(* McpServer::handle_request with its four tools, the POST /mcp handler    *)
(* jsonrpc_handler and the one-shot GET /sse handler sse_handler.          *)
(*                                                                         *)
(* Encodings.                                                              *)
(*  - serde_json::Value is a record tagged by "kind".  An object keeps its *)
(*    entries as a sequence in key order, as serde_json's BTreeMap does.   *)
(*  - Option<T> is [some |-> FALSE] or [some |-> TRUE, val |-> t].         *)
(*  - An f64 is the integer q that counts quarters: the double q/4.  The   *)
(*    numbers a client sends are multiples of 1/2, so sums, products and   *)
(*    squares are exact multiples of 1/4, as they are in IEEE arithmetic.  *)
(*  - Characters the TLA+ lexer refuses in a string are written as         *)
(*    <U+xxxx>: the backtick, the multiplication sign, superscript two and *)
(*    the square root sign.                                                *)
(***************************************************************************)
EXTENDS Integers, Sequences, FiniteSets, TLC

VARIABLES conns, sse

vars == <<conns, sse>>

\* Largest magnitude of a number a client sends.
MaxNum == 4
\* Connections to POST /mcp that are handled concurrently.
MaxConns == 2
\* Connections to GET /sse that are open concurrently.
MaxSse == 2

BACKTICK == "<U+0060>"
MULT_SIGN == "<U+00D7>"
SUPER_TWO == "<U+00B2>"
SQRT_SIGN == "<U+221A>"

---------------------------------------------------------------------------
(* Option<T> and serde_json::Value *)

None == [some |-> FALSE]
Some(v) == [some |-> TRUE, val |-> v]

Null == [kind |-> "null"]
\* A JSON number: an integer literal (float = FALSE) or a floating point one.
Num(q, float) == [kind |-> "num", q |-> q, float |-> float]
JInt(n) == Num(4 * n, FALSE)
Str(s) == [kind |-> "str", s |-> s]
Arr(items) == [kind |-> "arr", items |-> items]
Obj(ents) == [kind |-> "obj", ents |-> ents]
Ent(k, v) == [k |-> k, v |-> v]

Min(S) == CHOOSE m \in S : \A n \in S : m <= n

---------------------------------------------------------------------------
(* Formatting *)

Digit == <<"0", "1", "2", "3", "4", "5", "6", "7", "8", "9">>

RECURSIVE FmtNat(_)
FmtNat(n) == IF n < 10 THEN Digit[n + 1] ELSE FmtNat(n \div 10) \o Digit[(n % 10) + 1]

FmtInt(n) == IF n < 0 THEN "-" \o FmtNat(-n) ELSE FmtNat(n)

Abs(q) == IF q < 0 THEN -q ELSE q

Fraction == <<"", ".25", ".5", ".75">>

\* Rust's Display of the f64 q/4: no decimal point for an integral value.
FmtF64(q) == (IF q < 0 THEN "-" ELSE "") \o FmtNat(Abs(q) \div 4) \o Fraction[(Abs(q) % 4) + 1]

\* An f64 with its decimal point kept: serde_json's number output, serde's Unexpected::Float.
FmtF64Point(q) == IF q % 4 = 0 THEN FmtF64(q) \o ".0" ELSE FmtF64(q)

FmtNumber(v) == IF v.float THEN FmtF64Point(v.q) ELSE FmtInt(v.q \div 4)

\* Display of f64::sqrt of the non-negative double q/4.  The root of q/4 is
\* sqrt(q)/2: exact when q is a perfect square, otherwise the nearest double,
\* printed with the shortest digits that read back to it.
SqrtDigits(q) ==
    CASE q = 2 -> "0.7071067811865476"
      [] q = 6 -> "1.224744871391589"
      [] q = 8 -> "1.4142135623730951"
      [] q = 10 -> "1.5811388300841898"
      [] q = 12 -> "1.7320508075688772"
      [] q = 14 -> "1.8708286933869707"
      [] q = 18 -> "2.1213203435596424"
      [] q = 20 -> "2.23606797749979"
      [] q = 22 -> "2.345207879911715"
      [] q = 24 -> "2.449489742783178"

IsSquare(q) == \E r \in 0..q : r * r = q

FmtSqrt(q) ==
    IF IsSquare(q) THEN FmtF64(2 * (CHOOSE r \in 0..q : r * r = q)) ELSE SqrtDigits(q)

---------------------------------------------------------------------------
(* serde_json::to_string *)

RECURSIVE Value_to_string(_)
RECURSIVE Items_to_string(_, _)
RECURSIVE Ents_to_string(_, _)

Items_to_string(items, i) ==
    IF i > Len(items) THEN ""
    ELSE (IF i > 1 THEN "," ELSE "") \o Value_to_string(items[i]) \o Items_to_string(items, i + 1)

Ents_to_string(ents, i) ==
    IF i > Len(ents) THEN ""
    ELSE (IF i > 1 THEN "," ELSE "") \o "\"" \o ents[i].k \o "\":"
             \o Value_to_string(ents[i].v) \o Ents_to_string(ents, i + 1)

\* Only sse_handler serializes, and no string of its response holds a
\* character that JSON escapes.
Value_to_string(v) ==
    CASE v.kind = "null" -> "null"
      [] v.kind = "num" -> FmtNumber(v)
      [] v.kind = "str" -> "\"" \o v.s \o "\""
      [] v.kind = "arr" -> "[" \o Items_to_string(v.items, 1) \o "]"
      [] v.kind = "obj" -> "{" \o Ents_to_string(v.ents, 1) \o "}"

JsonRpcError_to_string(e) ==
    "{\"code\":" \o FmtInt(e.code) \o ",\"message\":\"" \o e.message \o "\""
        \o (IF e.data.some THEN ",\"data\":" \o Value_to_string(e.data.val) ELSE "") \o "}"

\* Serialize of JsonRpcResponse: the fields in declaration order, result and
\* error skipped when None, id written as null when None.
JsonRpcResponse_to_string(r) ==
    "{\"jsonrpc\":\"" \o r.jsonrpc \o "\",\"id\":"
        \o (IF r.id.some THEN Value_to_string(r.id.val) ELSE "null")
        \o (IF r.result.some THEN ",\"result\":" \o Value_to_string(r.result.val) ELSE "")
        \o (IF r.error.some THEN ",\"error\":" \o JsonRpcError_to_string(r.error.val) ELSE "")
        \o "}"

---------------------------------------------------------------------------
(* serde_json::from_value into the derived Deserialize types *)

Ok(v) == [ok |-> TRUE, val |-> v]
Err(e) == [ok |-> FALSE, err |-> e]

\* serde's Unexpected, as its Display writes it.
Unexpected(v) ==
    CASE v.kind = "null" -> "null"
      [] v.kind = "num" -> IF v.float THEN "floating point " \o BACKTICK \o FmtF64Point(v.q) \o BACKTICK
                           ELSE "integer " \o BACKTICK \o FmtInt(v.q \div 4) \o BACKTICK
      [] v.kind = "str" -> "string \"" \o v.s \o "\""
      [] v.kind = "arr" -> "sequence"
      [] v.kind = "obj" -> "map"

\* One field of a derived struct, by its Rust type.
de_field(ty, v) ==
    CASE ty = "f64" -> IF v.kind = "num" THEN Ok(v.q)
                       ELSE Err("invalid type: " \o Unexpected(v) \o ", expected f64")
      [] ty = "String" -> IF v.kind = "str" THEN Ok(v.s)
                          ELSE Err("invalid type: " \o Unexpected(v) \o ", expected a string")
      [] ty = "Value" -> Ok(v)

\* The place of key k among the fields names, 0 when it is none of them.
FieldIndex(names, k) ==
    IF \E j \in 1..Len(names) : names[j] = k THEN CHOOSE j \in 1..Len(names) : names[j] = k ELSE 0

\* #[derive(Deserialize)] of a struct sname with the fields names (in
\* declaration order) of the types tys, read from a Value.  The struct that
\* comes out is the record of its fields.

\* visit_seq: an array is read by position, and serde_json refuses the
\* elements left over.
RECURSIVE de_seq(_, _, _, _, _, _)
de_seq_next(sname, names, tys, items, i, acc, r) ==
    IF r.ok THEN de_seq(sname, names, tys, items, i + 1, (names[i] :> r.val) @@ acc) ELSE r

de_seq(sname, names, tys, items, i, acc) ==
    IF i > Len(names)
    THEN IF Len(items) > Len(names)
         THEN Err("invalid length " \o FmtNat(Len(items)) \o ", expected fewer elements in array")
         ELSE Ok(acc)
    ELSE IF i > Len(items)
    THEN Err("invalid length " \o FmtNat(i - 1) \o ", expected struct " \o sname \o " with "
                 \o FmtNat(Len(names)) \o " element" \o (IF Len(names) = 1 THEN "" ELSE "s"))
    ELSE de_seq_next(sname, names, tys, items, i, acc, de_field(tys[i], items[i]))

\* visit_map: an object is read entry by entry in key order, an unknown key is
\* skipped, and the first field that never came is reported at the end.
de_map_end(names, acc, missing) ==
    IF missing # {} THEN Err("missing field " \o BACKTICK \o names[Min(missing)] \o BACKTICK) ELSE Ok(acc)

RECURSIVE de_map(_, _, _, _, _)
de_map_value(names, tys, ents, i, acc, r) ==
    IF r.ok THEN de_map(names, tys, ents, i + 1, (ents[i].k :> r.val) @@ acc) ELSE r

de_map_entry(names, tys, ents, i, acc, j) ==
    IF j = 0 THEN de_map(names, tys, ents, i + 1, acc)
    ELSE de_map_value(names, tys, ents, i, acc, de_field(tys[j], ents[i].v))

de_map(names, tys, ents, i, acc) ==
    IF i > Len(ents)
    THEN de_map_end(names, acc, {j \in 1..Len(names) : names[j] \notin DOMAIN acc})
    ELSE de_map_entry(names, tys, ents, i, acc, FieldIndex(names, ents[i].k))

de_struct(sname, names, tys, v) ==
    CASE v.kind = "arr" -> de_seq(sname, names, tys, v.items, 1, <<>>)
      [] v.kind = "obj" -> de_map(names, tys, v.ents, 1, <<>>)
      [] OTHER -> Err("invalid type: " \o Unexpected(v) \o ", expected struct " \o sname)

AdditionParams(v) == de_struct("AdditionParams", <<"a", "b">>, <<"f64", "f64">>, v)

MultiplicationParams(v) == de_struct("MultiplicationParams", <<"a", "b">>, <<"f64", "f64">>, v)

SquareParams(v) == de_struct("SquareParams", <<"number">>, <<"f64">>, v)

SqrtParams(v) == de_struct("SqrtParams", <<"number">>, <<"f64">>, v)

ToolCallParams(v) == de_struct("ToolCallParams", <<"name", "arguments">>, <<"String", "Value">>, v)

---------------------------------------------------------------------------
(* McpServer *)

Prop(ty, description) == Obj(<<Ent("description", Str(description)), Ent("type", Str(ty))>>)

\* json!({"type": "object", "properties": {...}, "required": [...]})
Schema(props, required) ==
    Obj(<<Ent("properties", Obj(props)),
          Ent("required", Arr(required)),
          Ent("type", Str("object"))>>)

McpServer_new ==
    [server_info |->
        Obj(<<Ent("name", Str("Calculator MCP Server")),
              Ent("protocolVersion", Str("2024-11-05")),
              Ent("version", Str("1.0.0"))>>),
     tools |-> <<
        [name |-> "add",
         description |-> "Add two numbers together",
         input_schema |->
            Schema(<<Ent("a", Prop("number", "The first number to add")),
                     Ent("b", Prop("number", "The second number to add"))>>,
                   <<Str("a"), Str("b")>>)],
        [name |-> "multiply",
         description |-> "Multiply two numbers together",
         input_schema |->
            Schema(<<Ent("a", Prop("number", "The first number to multiply")),
                     Ent("b", Prop("number", "The second number to multiply"))>>,
                   <<Str("a"), Str("b")>>)],
        [name |-> "square",
         description |-> "Calculate the square of a number",
         input_schema |->
            Schema(<<Ent("number", Prop("number", "The number to square"))>>,
                   <<Str("number")>>)],
        [name |-> "sqrt",
         description |-> "Calculate the square root of a number",
         input_schema |->
            Schema(<<Ent("number",
                         Prop("number", "The number to find square root of (must be non-negative)"))>>,
                   <<Str("number")>>)] >>]

\* Serialize of Tool into a Value: input_schema is renamed inputSchema.
Tool_to_value(t) ==
    Obj(<<Ent("description", Str(t.description)),
          Ent("inputSchema", t.input_schema),
          Ent("name", Str(t.name))>>)

\* What a handler returns and what it wrote to standard output.
Returned(response, out) == [response |-> response, out |-> out]

\* The text content every tool wraps its result in.
TextContent(text) ==
    Obj(<<Ent("content", Arr(<<Obj(<<Ent("text", Str(text)), Ent("type", Str("text"))>>)>>))>>)

\* Mutant: an error response that also carries a null result.
InvalidParams_null_result(id, message) ==
    [jsonrpc |-> "2.0", id |-> id, result |-> Some(Null),
     error |-> Some([code |-> -32602, message |-> message, data |-> None])]

\* Mutant: an error response that forgets the id of the request.
InvalidParams_drops_id(id, message) ==
    [jsonrpc |-> "2.0", id |-> None, result |-> None,
     error |-> Some([code |-> -32602, message |-> message, data |-> None])]

InvalidParams(id, message) ==
    [jsonrpc |-> "2.0", id |-> id, result |-> None,
     error |-> Some([code |-> -32602, message |-> message, data |-> None])]

\* Mutant: an unknown tool reported as an unknown method.
UnknownTool_method_not_found(id) ==
    [jsonrpc |-> "2.0", id |-> id, result |-> None,
     error |-> Some([code |-> -32601, message |-> "Method not found", data |-> None])]

UnknownTool(id) == InvalidParams(id, "Unknown tool")

\* Mutant: an unknown method reported with the code of an invalid request.
MethodNotFound_invalid_request(id) ==
    [jsonrpc |-> "2.0", id |-> id, result |-> None,
     error |-> Some([code |-> -32600, message |-> "Method not found", data |-> None])]

MethodNotFound(id) ==
    [jsonrpc |-> "2.0", id |-> id, result |-> None,
     error |-> Some([code |-> -32601, message |-> "Method not found", data |-> None])]

handle_initialize(server, id) ==
    Returned([jsonrpc |-> "2.0", id |-> id,
              result |-> Some(Obj(<<Ent("capabilities", Obj(<<Ent("tools", Obj(<<>>))>>)),
                                    Ent("protocolVersion", Str("2024-11-05")),
                                    Ent("serverInfo", server.server_info)>>)),
              error |-> None],
             <<>>)

\* Mutant: the listing skips the first tool of the catalog.
handle_tools_list_skips_first(server, id) ==
    Returned([jsonrpc |-> "2.0", id |-> id,
              result |-> Some(Obj(<<Ent("tools",
                                        Arr([i \in 1..(Len(server.tools) - 1) |->
                                                Tool_to_value(server.tools[i + 1])]))>>)),
              error |-> None],
             <<>>)

handle_tools_list(server, id) ==
    Returned([jsonrpc |-> "2.0", id |-> id,
              result |-> Some(Obj(<<Ent("tools",
                                        Arr([i \in 1..Len(server.tools) |-> Tool_to_value(server.tools[i])]))>>)),
              error |-> None],
             <<>>)

\* format!("{} + {} = {}", params.a, params.b, result)
AdditionText(a, b, result) == FmtF64(a) \o " + " \o FmtF64(b) \o " = " \o FmtF64(result)

MultiplicationText(a, b, result) ==
    FmtF64(a) \o " " \o MULT_SIGN \o " " \o FmtF64(b) \o " = " \o FmtF64(result)

SquareText(number, result) == FmtF64(number) \o SUPER_TWO \o " = " \o FmtF64(result)

SqrtText(number) == SQRT_SIGN \o FmtF64(number) \o " = " \o FmtSqrt(number)

\* A tool's result, and the line the tool prints about it.
ToolResult(id, performed, text) ==
    Returned([jsonrpc |-> "2.0", id |-> id, result |-> Some(TextContent(text)), error |-> None],
             <<performed \o text>>)

\* let result = params.a + params.b;
addition(id, a, b) == ToolResult(id, "Performed addition: ", AdditionText(a, b, a + b))

handle_addition_match(id, params) ==
    IF ~params.ok
    THEN Returned(InvalidParams(id, "Invalid addition parameters: " \o params.err), <<>>)
    ELSE addition(id, params.val.a, params.val.b)

handle_addition(server, id, arguments) == handle_addition_match(id, AdditionParams(arguments))

\* Mutant: the product computed as the sum.
multiplication_adds(id, a, b) ==
    ToolResult(id, "Performed multiplication: ", MultiplicationText(a, b, a + b))

\* let result = params.a * params.b;
multiplication(id, a, b) ==
    ToolResult(id, "Performed multiplication: ", MultiplicationText(a, b, (a * b) \div 4))

\* Mutant: the error message copied from the addition tool.
handle_multiplication_match_copied(id, params) ==
    IF ~params.ok
    THEN Returned(InvalidParams(id, "Invalid addition parameters: " \o params.err), <<>>)
    ELSE multiplication(id, params.val.a, params.val.b)

handle_multiplication_match(id, params) ==
    IF ~params.ok
    THEN Returned(InvalidParams(id, "Invalid multiplication parameters: " \o params.err), <<>>)
    ELSE multiplication(id, params.val.a, params.val.b)

handle_multiplication(server, id, arguments) ==
    handle_multiplication_match(id, MultiplicationParams(arguments))

\* let result = params.number * params.number;
square(id, number) == ToolResult(id, "Performed square: ", SquareText(number, (number * number) \div 4))

handle_square_match(id, params) ==
    IF ~params.ok
    THEN Returned(InvalidParams(id, "Invalid square parameters: " \o params.err), <<>>)
    ELSE square(id, params.val.number)

handle_square(server, id, arguments) == handle_square_match(id, SquareParams(arguments))

\* Mutant: zero refused with the negative numbers.
sqrt_refuses_zero(id, number) ==
    IF number <= 0
    THEN Returned(InvalidParams(id, "Cannot calculate square root of negative number: " \o FmtF64(number)),
                  <<>>)
    ELSE ToolResult(id, "Performed square root: ", SqrtText(number))

\* if params.number < 0.0 { return ... } let result = params.number.sqrt();
sqrt(id, number) ==
    IF number < 0
    THEN Returned(InvalidParams(id, "Cannot calculate square root of negative number: " \o FmtF64(number)),
                  <<>>)
    ELSE ToolResult(id, "Performed square root: ", SqrtText(number))

handle_sqrt_match(id, params) ==
    IF ~params.ok
    THEN Returned(InvalidParams(id, "Invalid sqrt parameters: " \o params.err), <<>>)
    ELSE sqrt(id, params.val.number)

handle_sqrt(server, id, arguments) == handle_sqrt_match(id, SqrtParams(arguments))

\* match tool_call.name.as_str() { ... }
tool_dispatch(server, id, name, arguments) ==
    CASE name = "add" -> handle_addition(server, id, arguments)
      [] name = "multiply" -> handle_multiplication(server, id, arguments)
      [] name = "square" -> handle_square(server, id, arguments)
      [] name = "sqrt" -> handle_sqrt(server, id, arguments)
      [] OTHER -> Returned(UnknownTool(id), <<>>)

handle_tools_call_match(server, id, tool_call) ==
    IF ~tool_call.ok
    THEN Returned(InvalidParams(id, "Invalid params: " \o tool_call.err), <<>>)
    ELSE tool_dispatch(server, id, tool_call.val.name, tool_call.val.arguments)

handle_tools_call(server, id, params) ==
    IF ~params.some
    THEN Returned(InvalidParams(id, "Invalid params"), <<>>)
    ELSE handle_tools_call_match(server, id, ToolCallParams(params.val))

handle_request(server, request) ==
    CASE request.method = "initialize" -> handle_initialize(server, request.id)
      [] request.method = "tools/list" -> handle_tools_list(server, request.id)
      [] request.method = "tools/call" -> handle_tools_call(server, request.id, request.params)
      [] OTHER -> Returned(MethodNotFound(request.id), <<>>)

---------------------------------------------------------------------------
(* The requests clients send *)

JsonRpcRequest(jsonrpc, id, method, params) ==
    [jsonrpc |-> jsonrpc, id |-> id, method |-> method, params |-> params]

\* Integer literals n and floating point literals h/2 up to MaxNum in magnitude.
NumInputs ==
    {Num(4 * n, FALSE) : n \in -MaxNum..MaxNum} \cup {Num(2 * h, TRUE) : h \in (-2 * MaxNum)..(2 * MaxNum)}

FieldInputs == NumInputs \cup {Str("x"), Null}

ArgumentInputs ==
    {Obj(<<Ent("a", x), Ent("b", y)>>) : x \in FieldInputs, y \in FieldInputs}
        \cup {Obj(<<Ent("a", x)>>) : x \in FieldInputs}
        \cup {Obj(<<Ent("b", x)>>) : x \in FieldInputs}
        \cup {Obj(<<Ent("number", x)>>) : x \in FieldInputs}
        \cup {Obj(<<>>),
              Obj(<<Ent("a", JInt(5)), Ent("b", JInt(3))>>),
              Obj(<<Ent("a", Num(20, TRUE)), Ent("b", Num(12, TRUE))>>),
              Obj(<<Ent("a", JInt(1)), Ent("b", JInt(2)), Ent("c", Str("x"))>>),
              Obj(<<Ent("a", JInt(1)), Ent("b", JInt(2)), Ent("number", Str("x"))>>),
              Obj(<<Ent("a", Str("x")), Ent("number", JInt(2))>>),
              Arr(<<>>), Arr(<<JInt(1)>>), Arr(<<JInt(1), JInt(2)>>),
              Arr(<<JInt(1), Str("x")>>), Arr(<<JInt(1), JInt(2), JInt(3)>>),
              Null, Str("x"), JInt(5)}

\* The params a client sends; a null params reaches the handler as None.
NameInputs == {"add", "multiply", "square", "sqrt", "divide", "Add", ""}

ParamInputs ==
    {Obj(<<Ent("arguments", a), Ent("name", Str(n))>>) : a \in ArgumentInputs, n \in NameInputs}
        \cup {Obj(<<Ent("name", Str(n))>>) : n \in NameInputs}
        \cup {Arr(<<Str(n), Obj(<<Ent("a", JInt(1)), Ent("b", JInt(2))>>)>>) : n \in NameInputs}
        \cup {Obj(<<>>),
              Obj(<<Ent("arguments", Obj(<<Ent("number", JInt(1))>>))>>),
              Obj(<<Ent("arguments", Obj(<<Ent("number", JInt(1))>>)), Ent("name", JInt(5))>>),
              Obj(<<Ent("arguments", Obj(<<Ent("number", JInt(1))>>)), Ent("name", Null)>>),
              Obj(<<Ent("arguments", Null), Ent("extra", JInt(1)), Ent("name", Str("divide"))>>),
              Arr(<<>>), Arr(<<Str("sqrt")>>), Arr(<<JInt(5), Null>>),
              Str("add"), JInt(5)}

IdInputs == {None, Some(JInt(1)), Some(Str("req-7"))}

MethodInputs == {"initialize", "tools/list", "tools/call", "foo/bar", "Tools/List", "tools/call/", ""}

\* A tools/call with each of the params above; every method with a few params;
\* a few requests of another protocol version, which nothing reads.
Requests ==
    {JsonRpcRequest("2.0", id, "tools/call", Some(p)) : id \in IdInputs, p \in ParamInputs}
        \cup {JsonRpcRequest("2.0", id, m, p) :
                id \in IdInputs, m \in MethodInputs,
                p \in {None, Some(Obj(<<>>)),
                       Some(Obj(<<Ent("arguments", Obj(<<Ent("number", JInt(-1))>>)),
                                  Ent("name", Str("sqrt"))>>))}}
        \cup {JsonRpcRequest("1.0", None, m, None) : m \in MethodInputs}

\* One request for each path through the dispatcher.
ConcRequests ==
    {JsonRpcRequest("2.0", Some(JInt(1)), "initialize", None),
     JsonRpcRequest("2.0", Some(JInt(2)), "tools/list", None),
     JsonRpcRequest("2.0", None, "foo/bar", None),
     JsonRpcRequest("2.0", Some(JInt(3)), "tools/call", None),
     JsonRpcRequest("2.0", Some(JInt(4)), "tools/call",
                    Some(Obj(<<Ent("arguments", Obj(<<Ent("a", JInt(5)), Ent("b", JInt(3))>>)),
                               Ent("name", Str("add"))>>))),
     JsonRpcRequest("2.0", Some(JInt(5)), "tools/call",
                    Some(Obj(<<Ent("arguments", Obj(<<Ent("number", JInt(-4))>>)),
                               Ent("name", Str("sqrt"))>>))),
     JsonRpcRequest("2.0", Some(JInt(6)), "tools/call",
                    Some(Obj(<<Ent("arguments", Obj(<<Ent("a", Str("x"))>>)),
                               Ent("name", Str("multiply"))>>))),
     JsonRpcRequest("2.0", Some(Str("req-7")), "tools/call",
                    Some(Obj(<<Ent("arguments", Null), Ent("name", Str("divide"))>>)))}

\* The query strings and header sets of a GET /sse.
QueryInputs == {<<>>, <<Ent("sessionId", "abc")>>}
HeaderInputs == {<<>>, <<Ent("last-event-id", "41")>>}

---------------------------------------------------------------------------
(* The handlers *)

IdleConn == [pc |-> "idle", request |-> None, server |-> None, response |-> None, out |-> <<>>]

IdleSse == [pc |-> "idle", query |-> <<>>, headers |-> <<>>, server |-> None,
            remaining |-> 0, events |-> <<>>]

\* Mutant: .take(2)
SseTake_two == 1 + 1

\* .take(1)
SseTake == 1

\* Mutant: handling a request uses up the last tool of the catalog.
ServerAfterRequest_pops_tool(server, request) ==
    [server EXCEPT !.tools = SubSeq(@, 1, Len(@) - 1)]

\* &self: handling a request leaves the server as it was.
ServerAfterRequest(server, request) == server

\* The Json extractor has parsed the body of a POST /mcp: jsonrpc_handler
\* starts.  out collects what handle_request prints; the handler's own two
\* lines, the Debug text of the request and of the response, are left out.
\* requests: what the clients of this connection may send.
jsonrpc_receive(c, requests) ==
    /\ conns[c].pc = "idle"
    /\ \E request \in requests :
          conns' = [conns EXCEPT ![c] = [IdleConn EXCEPT !.pc = "received", !.request = Some(request)]]
    /\ UNCHANGED sse

\* let server = McpServer::new();
jsonrpc_new_server(c) ==
    /\ conns[c].pc = "received"
    /\ conns' = [conns EXCEPT ![c].pc = "built", ![c].server = Some(McpServer_new)]
    /\ UNCHANGED sse

HandledWith(conn, server, returned) ==
    [conn EXCEPT !.pc = "handled",
                 !.server = Some(ServerAfterRequest(server, conn.request.val)),
                 !.response = Some(returned.response),
                 !.out = returned.out]

Handled(conn, server) == HandledWith(conn, server, handle_request(server, conn.request.val))

\* let response = server.handle_request(request);
jsonrpc_handle(c) ==
    /\ conns[c].pc = "built"
    /\ conns' = [conns EXCEPT ![c] = Handled(@, @.server.val)]
    /\ UNCHANGED sse

\* Json(response): the response is handed to the transport.
jsonrpc_respond(c) ==
    /\ conns[c].pc = "handled"
    /\ conns' = [conns EXCEPT ![c].pc = "sent"]
    /\ UNCHANGED sse

\* The exchange is over: the handler's locals are dropped.
jsonrpc_done(c) ==
    /\ conns[c].pc = "sent"
    /\ conns' = [conns EXCEPT ![c] = IdleConn]
    /\ UNCHANGED sse

\* sse_handler: the server is built and becomes the state of the unfold stream.
\* queries, headerSets: what the clients of this connection may send.
sse_handler(s, queries, headerSets) ==
    /\ sse[s].pc = "idle"
    /\ \E query \in queries, headers \in headerSets :
          sse' = [sse EXCEPT ![s] = [pc |-> "open", query |-> query, headers |-> headers,
                                     server |-> Some(McpServer_new),
                                     remaining |-> SseTake, events |-> <<>>]]
    /\ UNCHANGED conns

\* The synthesized request of the stream's closure.
init_request ==
    JsonRpcRequest("2.0", Some(JInt(1)), "initialize",
                   Some(Obj(<<Ent("capabilities", Obj(<<>>)),
                              Ent("clientInfo", Obj(<<Ent("name", Str("cursor-client")),
                                                      Ent("version", Str("1.0.0"))>>)),
                              Ent("protocolVersion", Str("2024-11-05"))>>)))

\* The closure of the unfold stream: the event, and the server handed on.
sse_event(server) ==
    [event |-> "message",
     data |-> JsonRpcResponse_to_string(handle_request(server, init_request).response)]

Emitted(conn, server) ==
    [conn EXCEPT !.events = Append(@, sse_event(server)),
                 !.remaining = @ - 1,
                 !.server = Some(ServerAfterRequest(server, init_request))]

\* The response body polls the stream.  Take hands the poll to the unfold
\* closure while items remain, and ends the stream once none does; the closure
\* is ready at once, so the keep-alive timer never gets its turn.
sse_poll(s) ==
    /\ sse[s].pc = "open"
    /\ IF sse[s].remaining > 0
       THEN sse' = [sse EXCEPT ![s] = Emitted(@, @.server.val)]
       ELSE sse' = [sse EXCEPT ![s].pc = "ended"]
    /\ UNCHANGED conns

\* The connection is gone.
sse_done(s) ==
    /\ sse[s].pc = "ended"
    /\ sse' = [sse EXCEPT ![s] = IdleSse]
    /\ UNCHANGED conns

---------------------------------------------------------------------------
(* Specifications *)

\* One POST /mcp at a time, over every request.
Init ==
    /\ conns = [c \in {1} |-> IdleConn]
    /\ sse = [s \in {1} |-> IdleSse]

Next ==
    \/ \E c \in DOMAIN conns : jsonrpc_receive(c, Requests)
    \/ \E c \in DOMAIN conns : jsonrpc_new_server(c)
    \/ \E c \in DOMAIN conns : jsonrpc_handle(c)
    \/ \E c \in DOMAIN conns : jsonrpc_respond(c)
    \/ \E c \in DOMAIN conns : jsonrpc_done(c)

Spec == Init /\ [][Next]_vars

\* MaxConns POST /mcp and one GET /sse in flight together.
ConcInit ==
    /\ conns = [c \in 1..MaxConns |-> IdleConn]
    /\ sse = [s \in {1} |-> IdleSse]

ConcNext ==
    \/ \E c \in DOMAIN conns : jsonrpc_receive(c, ConcRequests)
    \/ \E c \in DOMAIN conns : jsonrpc_new_server(c)
    \/ \E c \in DOMAIN conns : jsonrpc_handle(c)
    \/ \E c \in DOMAIN conns : jsonrpc_respond(c)
    \/ \E c \in DOMAIN conns : jsonrpc_done(c)
    \/ \E s \in DOMAIN sse : sse_handler(s, {<<>>}, {<<>>})
    \/ \E s \in DOMAIN sse : sse_poll(s)
    \/ \E s \in DOMAIN sse : sse_done(s)

ConcSpec == ConcInit /\ [][ConcNext]_vars

\* MaxSse GET /sse open together.  The runtime keeps polling the body of a
\* response that is ready, so a stream that can make a step makes it.
SseInit ==
    /\ conns = [c \in {1} |-> IdleConn]
    /\ sse = [s \in 1..MaxSse |-> IdleSse]

SseNext ==
    \/ \E s \in DOMAIN sse : sse_handler(s, QueryInputs, HeaderInputs)
    \/ \E s \in DOMAIN sse : sse_poll(s)
    \/ \E s \in DOMAIN sse : sse_done(s)

SseSpec == SseInit /\ [][SseNext]_vars /\ \A s \in 1..MaxSse : WF_vars(sse_poll(s))

---------------------------------------------------------------------------
(* Reading a state: the requests that have their response *)

Answered == {c \in DOMAIN conns : conns[c].pc \in {"handled", "sent"}}
Req(c) == conns[c].request.val
Resp(c) == conns[c].response.val
ErrorOf(c) == Resp(c).error.val

HasKey(ents, k) == \E i \in 1..Len(ents) : ents[i].k = k
Field(ents, k) == ents[CHOOSE i \in 1..Len(ents) : ents[i].k = k].v

ToolNames == {"add", "multiply", "square", "sqrt"}
MethodNames == {"initialize", "tools/list", "tools/call"}

\* A tools/call whose params are an object with a string name.
NamesTool(c) ==
    /\ Req(c).method = "tools/call"
    /\ Req(c).params.some
    /\ Req(c).params.val.kind = "obj"
    /\ HasKey(Req(c).params.val.ents, "name")
    /\ Field(Req(c).params.val.ents, "name").kind = "str"

NameOf(c) == Field(Req(c).params.val.ents, "name").s
HasArguments(c) == HasKey(Req(c).params.val.ents, "arguments")
ArgsOf(c) == Field(Req(c).params.val.ents, "arguments")

\* The arguments are an object that holds a number under each of the keys.
HasNumbers(args, keys) ==
    /\ args.kind = "obj"
    /\ \A k \in keys : HasKey(args.ents, k) /\ Field(args.ents, k).kind = "num"

IntegerValued(args, keys) == \A k \in keys : Field(args.ents, k).q % 4 = 0
IntOf(args, k) == Field(args.ents, k).q \div 4

\* {content: [{type: "text", text: <text>}]}
IsTextResult(c, text) ==
    /\ Resp(c).result.some
    /\ Resp(c).result.val
         = Obj(<<Ent("content", Arr(<<Obj(<<Ent("text", Str(text)), Ent("type", Str("text"))>>)>>))>>)

\* C1: every response has exactly one of result and error: never both,
\* never neither.
C1_ExactlyOneOfResultAndError ==
    \A c \in Answered : Resp(c).result.some # Resp(c).error.some

C1_Witness ==
    \E c \in Answered :
        Req(c).method = "tools/call" /\ Resp(c).error.some /\ ~Resp(c).result.some

\* C2: the id of the response is the id of the request, an absent id staying
\* absent, on every path.
C2_IdEchoed ==
    \A c \in Answered : Resp(c).id = Req(c).id

C2_Witness ==
    \E c \in Answered :
        /\ ~Req(c).id.some
        /\ ~Resp(c).id.some
        /\ Resp(c).error.some
        /\ ErrorOf(c).message = "Cannot calculate square root of negative number: -1"

\* C3: the error is -32601 "Method not found" exactly when the method is none
\* of initialize, tools/list, tools/call; every other error is -32602.
C3_MethodNotFoundIffUnknownMethod ==
    \A c \in Answered :
        /\ (Resp(c).error.some /\ ErrorOf(c).code = -32601) <=> (Req(c).method \notin MethodNames)
        /\ Req(c).method \notin MethodNames =>
             Resp(c).error.some /\ ErrorOf(c).message = "Method not found"
        /\ Resp(c).error.some /\ Req(c).method \in MethodNames => ErrorOf(c).code = -32602

C3_Witness ==
    \E c \in Answered :
        Req(c).method = "Tools/List" /\ Resp(c).error.some /\ ErrorOf(c).code = -32601

HalfText(q) ==
    (IF q < 0 THEN "-" ELSE "") \o FmtNat(Abs(q) \div 4) \o (IF q % 4 = 0 THEN "" ELSE ".5")

\* C5: sqrt of a number >= 0 returns no error and a text result; sqrt of a
\* number < 0 returns error -32602 whose message holds the number, no result,
\* and computes no square root.
C5_SqrtDomain ==
    \A c \in Answered :
        NamesTool(c) /\ HasArguments(c) /\ NameOf(c) = "sqrt" /\ HasNumbers(ArgsOf(c), {"number"}) =>
            /\ Field(ArgsOf(c).ents, "number").q >= 0 =>
                 /\ ~Resp(c).error.some
                 /\ Resp(c).result.some
                 /\ \E text \in {Field(Field(Resp(c).result.val.ents, "content").items[1].ents, "text").s} :
                        IsTextResult(c, text) /\ conns[c].out = <<"Performed square root: " \o text>>
            /\ Field(ArgsOf(c).ents, "number").q < 0 =>
                 /\ Resp(c).error.some
                 /\ ErrorOf(c).code = -32602
                 /\ ErrorOf(c).message = "Cannot calculate square root of negative number: "
                                             \o HalfText(Field(ArgsOf(c).ents, "number").q)
                 /\ ~Resp(c).result.some
                 /\ conns[c].out = <<>>
            /\ ArgsOf(c) = Obj(<<Ent("number", JInt(-4))>>) =>
                 /\ Resp(c).error.some
                 /\ ErrorOf(c).message = "Cannot calculate square root of negative number: -4"
            /\ ArgsOf(c) = Obj(<<Ent("number", JInt(4))>>) =>
                 IsTextResult(c, SQRT_SIGN \o "4 = 2")

C5_Witness ==
    \E c \in Answered :
        /\ NamesTool(c) /\ HasArguments(c) /\ NameOf(c) = "sqrt"
        /\ ArgsOf(c) = Obj(<<Ent("number", JInt(-4))>>)
        /\ Resp(c).error.some
        /\ ErrorOf(c).code = -32602
        /\ ~Resp(c).result.some

Affixes == {"", "Invalid params: ", ": divide", ": Add", ": "}
ContainsUnknownTool(message) ==
    \E pre \in Affixes, post \in Affixes : message = pre \o "Unknown tool" \o post

\* C6 as stated: a name that is none of the four tools yields -32602 with a
\* message containing "Unknown tool", whether or not arguments is present.
C6_UnknownToolWhateverArguments ==
    \A c \in Answered :
        NamesTool(c) /\ NameOf(c) \notin ToolNames =>
            /\ Resp(c).error.some
            /\ ErrorOf(c).code = -32602
            /\ ContainsUnknownTool(ErrorOf(c).message)

\* C6 amended: a name that is none of the four tools yields -32602 "Unknown
\* tool" whatever the arguments field holds, provided the field is present;
\* without it the params do not parse, and the error is -32602 with the
\* message of the missing field.
C6_UnknownToolWhenArgumentsPresent ==
    \A c \in Answered :
        NamesTool(c) /\ NameOf(c) \notin ToolNames =>
            /\ Resp(c).error.some
            /\ ~Resp(c).result.some
            /\ ErrorOf(c).code = -32602
            /\ HasArguments(c) => ErrorOf(c).message = "Unknown tool"
            /\ ~HasArguments(c) =>
                 ErrorOf(c).message = "Invalid params: missing field " \o BACKTICK \o "arguments" \o BACKTICK

C6_Witness ==
    \E c \in Answered :
        /\ NamesTool(c) /\ NameOf(c) = "divide"
        /\ HasArguments(c) /\ ArgsOf(c) = Null
        /\ Resp(c).error.some
        /\ ErrorOf(c).message = "Unknown tool"

\* The response to the synthesized initialize request with id 1, serialized.
InitializeData ==
    "{\"jsonrpc\":\"2.0\",\"id\":1,\"result\":{\"capabilities\":{\"tools\":{}},"
        \o "\"protocolVersion\":\"2024-11-05\",\"serverInfo\":{\"name\":\"Calculator MCP Server\","
        \o "\"protocolVersion\":\"2024-11-05\",\"version\":\"1.0.0\"}}}"

SseOneEvent ==
    \A s \in DOMAIN sse :
        /\ Len(sse[s].events) <= 1
        /\ \A i \in 1..Len(sse[s].events) : sse[s].events[i] = [event |-> "message", data |-> InitializeData]
        /\ sse[s].pc = "ended" => Len(sse[s].events) = 1

\* C7: every GET /sse emits exactly one event, named message, whose data is
\* the serialized response to the synthesized initialize request with id 1;
\* no second event is emitted and the stream ends, whatever the query
\* parameters and headers.
C7_OneEventThenEnd ==
    /\ []SseOneEvent
    /\ \A s \in 1..MaxSse : (sse[s].pc = "open") ~> (sse[s].pc = "ended")

C7_Witness ==
    \E s \in DOMAIN sse :
        /\ sse[s].pc = "ended"
        /\ sse[s].query # <<>>
        /\ sse[s].headers # <<>>
        /\ Len(sse[s].events) = 1

C9_ToolsListCatalog ==
    \A c \in Answered :
        Req(c).method = "tools/list" =>
            /\ ~Resp(c).error.some
            /\ Resp(c).result.some
            /\ Resp(c).result.val.kind = "obj"
            /\ Len(Resp(c).result.val.ents) = 1
            /\ Resp(c).result.val.ents[1].k = "tools"
            /\ Resp(c).result.val.ents[1].v.kind = "arr"
            /\ [i \in 1..Len(Resp(c).result.val.ents[1].v.items) |->
                    Field(Resp(c).result.val.ents[1].v.items[i].ents, "name")]
                 = <<Str("add"), Str("multiply"), Str("square"), Str("sqrt")>>

C9_Witness ==
    \E c \in Answered :
        /\ Req(c).method = "tools/list"
        /\ Req(c).params.some
        /\ Req(c).id = Some(Str("req-7"))
        /\ Resp(c).result.some

\* The arguments are an object in which a required field is missing or is
\* not a number.
Required(tool) == IF tool \in {"add", "multiply"} THEN {"a", "b"} ELSE {"number"}
BadShape(tool, args) ==
    /\ args.kind = "obj"
    /\ \E k \in Required(tool) : ~HasKey(args.ents, k) \/ Field(args.ents, k).kind # "num"

\* What serde reports about such arguments.
ShapeDetails ==
    {"missing field " \o BACKTICK \o k \o BACKTICK : k \in {"a", "b", "number"}}
        \cup {"invalid type: string \"x\", expected f64", "invalid type: null, expected f64"}

\* The word each tool's message uses for the tool.
ToolWord(tool) ==
    CASE tool = "add" -> "addition"
      [] tool = "multiply" -> "multiplication"
      [] tool = "square" -> "square"
      [] tool = "sqrt" -> "sqrt"

\* C10 as stated: arguments of the wrong shape yield -32602, no result, and
\* "Invalid <tool> parameters: <detail>" with the name of the tool called.
C10_InvalidParametersNamesTool ==
    \A c \in Answered :
        NamesTool(c) /\ HasArguments(c) /\ NameOf(c) \in ToolNames /\ BadShape(NameOf(c), ArgsOf(c)) =>
            /\ Resp(c).error.some
            /\ ErrorOf(c).code = -32602
            /\ ~Resp(c).result.some
            /\ ErrorOf(c).message \in {"Invalid " \o NameOf(c) \o " parameters: " \o d : d \in ShapeDetails}

\* C10 amended: the message is "Invalid <word> parameters: <detail>" where
\* <word> is addition for add, multiplication for multiply, square for square
\* and sqrt for sqrt.
C10_InvalidParametersNamesOperation ==
    \A c \in Answered :
        NamesTool(c) /\ HasArguments(c) /\ NameOf(c) \in ToolNames /\ BadShape(NameOf(c), ArgsOf(c)) =>
            /\ Resp(c).error.some
            /\ ErrorOf(c).code = -32602
            /\ ~Resp(c).result.some
            /\ ErrorOf(c).message
                 \in {"Invalid " \o ToolWord(NameOf(c)) \o " parameters: " \o d : d \in ShapeDetails}

C10_Witness ==
    \E c \in Answered :
        /\ NamesTool(c) /\ HasArguments(c) /\ NameOf(c) = "multiply"
        /\ ArgsOf(c) = Obj(<<Ent("a", Str("x"))>>)
        /\ Resp(c).error.some
        /\ ErrorOf(c).message = "Invalid multiplication parameters: invalid type: string \"x\", expected f64"

=============================================================================
